---- MODULE Spec2Model ----
(***************************************************************************)
(* The OpenCL reduction kernels of src/main/resources/reduce.c             *)
(* (reduceHybrid, reduceBarrier, reduceSimd) as a state machine.           *)
(*                                                                         *)
(* A dispatch launches numGroups work-groups of groupSize work-items.      *)
(* The work-items of a group with local indices k*W .. (k+1)*W-1           *)
(* (W = simdWidth, what get_max_sub_group_size() returns) form one         *)
(* lockstep unit: a unit executes one instruction for all of its lanes at  *)
(* once, every lane's reads preceding every lane's writes.  Distinct units *)
(* (of one group or of different groups) interleave arbitrarily; only      *)
(* barrier(CLK_LOCAL_MEM_FENCE) orders the units of one group.  A step is  *)
(* one instruction of one unit that touches shared memory (the load, one   *)
(* +=, the store to results); the private loop variable and the loop tests *)
(* are folded into the step before them.  The uint indices stay far below  *)
(* 2^32 within the bounds, so their arithmetic is that of the integers.    *)
(*                                                                         *)
(* A double is modelled as a record [v, e]: v is its value as an integer,  *)
(* e the expression tree of additions that produced it (floating point     *)
(* addition is commutative but not associative, so the tree is what        *)
(* decides the rounded result).  A leaf <<k>> is input[k].                 *)
(*                                                                         *)
(* __local memory and the results buffer start uninitialised.  The content *)
(* of an uninitialised slot, and what a read of localSlice beyond the      *)
(* groupSize slots the host allocated returns, is Indeterminate: a token   *)
(* that stands for every value the hardware may deliver there.  A sum with *)
(* an indeterminate operand is indeterminate, and Indeterminate equals no  *)
(* sum of input elements.                                                  *)
(***************************************************************************)
EXTENDS Integers, Sequences, FiniteSets

VARIABLES
    kernel,             \* the kernel being dispatched
    groupSize,          \* get_local_size(0)
    numGroups,          \* number of work-groups of the dispatch
    simdWidth,          \* get_max_sub_group_size()
    inputLength,        \* kernel argument inputLength
    input,              \* kernel argument input: 0..inputLength-1 -> double
    localSlice,         \* kernel argument localSlice, one buffer per group
    results,            \* kernel argument results, one slot per group
    pc,                 \* pc[g][u]: the next instruction of unit u of group g
    activeThreadCount,  \* activeThreadCount[g][u]: the private loop variable
    resultWriters,      \* resultWriters[h]: the <<g, i>> that have stored to results[h]
    inputReads,         \* the global indices at which input[] has been read
    pending,            \* kernels the host still has to dispatch on this input
    history,            \* the outcome of the dispatches already completed
    epochReads,         \* epochReads[g]: the <<i, slot, kind>> reads of localSlice by
                        \*   work-item i of group g since the group's last barrier
    epochWrites,        \* epochWrites[g]: the <<i, slot>> writes of localSlice since then
    barriersPassed,     \* barriersPassed[g][u]: barriers the unit has passed
    roundsRun,          \* roundsRun[g][u]: iterations of the halving loops the unit has run
    widthOut,           \* getSimdWidth's argument simdWidth, the output buffer
    widthWriters        \* the <<g, i, index>> stores to that buffer

vars == <<kernel, groupSize, numGroups, simdWidth, inputLength, input,
          localSlice, results, pc, activeThreadCount,
          resultWriters, inputReads, pending, history,
          epochReads, epochWrites, barriersPassed, roundsRun, widthOut, widthWriters>>

accesses == <<epochReads, epochWrites>>

progress == <<barriersPassed, roundsRun>>

probe == <<widthOut, widthWriters>>

launch == <<groupSize, numGroups, simdWidth, inputLength, input>>

----------------------------------------------------------------------------
(* Bounds of the model *)

MaxGroupSize == 6
MaxGroups == 2
MaxSimdLog == 2
MaxLen == 6
MaxUnits == 4
MaxRepeatUnits == 2
MaxPassLen == 8
MaxFairUnits == 3

----------------------------------------------------------------------------
(* Values *)

RECURSIVE Pow2(_)
Pow2(k) == IF k = 0 THEN 1 ELSE 2 * Pow2(k - 1)

IsPow2(n) == \E k \in 0..n : Pow2(k) = n

Kernels == {"reduceHybrid", "reduceBarrier", "reduceSimd"}

Indeterminate == [v |-> -1, e |-> <<>>]

IsDef(x) == x # Indeterminate

Leaf(k, x) == [v |-> x, e |-> <<k>>]

Plus(a, b) ==
    IF IsDef(a) /\ IsDef(b)
    THEN [v |-> a.v + b.v, e |-> <<a.e, b.e>>]
    ELSE Indeterminate

----------------------------------------------------------------------------
(* Work-item coordinates *)

Groups == 0 .. numGroups - 1

LocalIds == 0 .. groupSize - 1

NumUnits == (groupSize + simdWidth - 1) \div simdWidth

Units == 0 .. NumUnits - 1

Lanes(u) == {i \in LocalIds : i \div simdWidth = u}

GlobalIndex(g, i) == g * groupSize + i

GroupIdZero(g) == 0

GroupId(g) == g

----------------------------------------------------------------------------
(* Memory accesses and the tests of the kernels *)

ReadInput(k) == IF k \in DOMAIN input THEN Leaf(k, input[k]) ELSE Indeterminate

ReadLocal(slice, j) == IF j < groupSize THEN slice[j] ELSE Indeterminate

accumulateVolatile(sourceIndex, targetIndex, slice) ==
    Plus(ReadLocal(slice, targetIndex), ReadLocal(slice, sourceIndex))

LoadGuardOffByOne(g, i) == GlobalIndex(g, i) <= inputLength

LoadGuard(g, i) == GlobalIndex(g, i) < inputLength

FencedGuardUngated(g, i, a) == GlobalIndex(g, i) + a < inputLength

FencedGuardOffByOne(g, i, a) == i < a /\ GlobalIndex(g, i) + a <= inputLength

FencedGuard(g, i, a) == i < a /\ GlobalIndex(g, i) + a < inputLength

VolatileGuardOffByOne(g, i, a) == GlobalIndex(g, i) + a <= inputLength

VolatileGuard(g, i, a) == GlobalIndex(g, i) + a < inputLength

SourceIndexNeighbour(i, a) == i + 1

SourceIndex(i, a) == i + a

InitialCountRoundedUp == (groupSize + 1) \div 2

InitialCount == groupSize \div 2

Halve(a) == a \div 2

FencedLoopTestInclusive(k, a) == IF k = "reduceHybrid" THEN a >= simdWidth ELSE a > 0

FencedLoopTest(k, a) == IF k = "reduceHybrid" THEN a > simdWidth ELSE a > 0

ReturnsAtTransitionLate(u) == \A i \in Lanes(u) : i > simdWidth

ReturnsAtTransition(u) == \A i \in Lanes(u) : i >= simdWidth

StoresResultUngated(k, i) == TRUE

StoresResult(k, i) == k = "reduceSimd" \/ i = 0

(* the return of line 41 placed before the fenced loop *)
AtFencedLoopReturnFirst(k, u, a) ==
    IF k = "reduceHybrid" /\ ReturnsAtTransition(u) THEN "done"
    ELSE IF FencedLoopTest(k, a) THEN "combine"
    ELSE IF k = "reduceBarrier" THEN "write"
    ELSE IF a > 0 THEN "volatile"
    ELSE "write"

(* The instruction a unit executes next once it holds activeThreadCount = a
   at the head of the fenced loop (lines 29, 69), falling through to the
   code after the loop when the loop test fails. *)
AtFencedLoop(k, u, a) ==
    IF FencedLoopTest(k, a) THEN "combine"
    ELSE IF k = "reduceBarrier" THEN "write"
    ELSE IF ReturnsAtTransition(u) THEN "done"
    ELSE IF a > 0 THEN "volatile"
    ELSE "write"

(* The same at the head of the unfenced loop (lines 42, 100). *)
AtVolatileLoop(a) == IF a > 0 THEN "volatile" ELSE "write"

(* the lanes executing the += one after the other, highest local index first *)
RECURSIVE CombinedSerial(_, _, _)
CombinedSerial(slice, active, a) ==
    IF active = {} THEN slice
    ELSE LET i == CHOOSE x \in active : \A y \in active : y <= x
         IN  CombinedSerial(
                 [slice EXCEPT ![i] = accumulateVolatile(SourceIndex(i, a), i, slice)],
                 active \ {i}, a)

(* One += instruction of unit u of group g with activeThreadCount = a, executed
   by the lanes in active: all lanes read, then all lanes write. *)
Combined(slice, active, a) ==
    [j \in LocalIds |->
        IF j \in active
        THEN accumulateVolatile(SourceIndex(j, a), j, slice)
        ELSE slice[j]]

(* the reads of localSlice that instruction makes: each lane reads its own
   slot, the target of the +=, and the slot SourceIndex away, its source *)
CombineReads(active, a) ==
    {<<i, i, "target">> : i \in active}
        \cup {<<i, SourceIndex(i, a), "source">> : i \in active}

----------------------------------------------------------------------------
(* A dispatch *)

InputVectors(n) ==
    {[k \in 0 .. n - 1 |-> k + 1], [k \in 0 .. n - 1 |-> Pow2(k)]}

StartState ==
    /\ localSlice = [g \in Groups |-> [j \in LocalIds |-> Indeterminate]]
    /\ results = [g \in Groups |-> Indeterminate]
    /\ pc = [g \in Groups |-> [u \in Units |-> "load"]]
    /\ activeThreadCount = [g \in Groups |-> [u \in Units |-> 0]]
    /\ resultWriters = [g \in Groups |-> {}]
    /\ inputReads = {}
    /\ epochReads = [g \in Groups |-> {}]
    /\ epochWrites = [g \in Groups |-> {}]
    /\ barriersPassed = [g \in Groups |-> [u \in Units |-> 0]]
    /\ roundsRun = [g \in Groups |-> [u \in Units |-> 0]]

InitLaunch ==
    /\ kernel \in Kernels
    /\ groupSize \in 1 .. MaxGroupSize
    /\ numGroups \in 1 .. MaxGroups
    /\ simdWidth \in {Pow2(k) : k \in 0 .. MaxSimdLog}
    /\ NumUnits * numGroups <= MaxUnits
    /\ inputLength \in 0 .. MaxLen
    /\ input \in InputVectors(inputLength)
    /\ StartState
    /\ history = <<>>
    /\ widthOut = [k \in 0 .. 1 |-> 0]
    /\ widthWriters = {}

Init == InitLaunch /\ pending = <<>>

(* line 23, 64, 96 *)
LoadInput(g, u) ==
    /\ pc[g][u] = "load"
    /\ LET loading == {i \in Lanes(u) : LoadGuard(g, i)}
           a == InitialCount
       IN  /\ localSlice' = [localSlice EXCEPT ![g] =
                 [j \in LocalIds |->
                     IF j \in loading
                     THEN ReadInput(GlobalIndex(g, j))
                     ELSE @[j]]]
           /\ inputReads' = inputReads \cup {GlobalIndex(g, i) : i \in loading}
           /\ epochWrites' = [epochWrites EXCEPT ![g] = @ \cup {<<i, i>> : i \in loading}]
           /\ IF kernel = "reduceSimd"
              THEN /\ pc' = [pc EXCEPT ![g][u] = AtVolatileLoop(a)]
                   /\ activeThreadCount' = [activeThreadCount EXCEPT ![g][u] = a]
              ELSE /\ pc' = [pc EXCEPT ![g][u] = "barrier0"]
                   /\ UNCHANGED activeThreadCount
    /\ UNCHANGED <<kernel, launch, results, resultWriters, pending, history,
                   epochReads, progress, probe>>

(* lines 24, 36, 65, 76: barrier(CLK_LOCAL_MEM_FENCE).  A unit whose pc is
   "barrier0" or "barrier" is blocked in it; once every work-item of the group
   is, all of them proceed to the loop test that follows. *)
BarrierRelease(g) ==
    /\ \A u \in Units : pc[g][u] \in {"barrier0", "barrier"}
    /\ LET next(u) == IF pc[g][u] = "barrier0" THEN InitialCount
                      ELSE Halve(activeThreadCount[g][u])
       IN  /\ activeThreadCount' = [activeThreadCount EXCEPT ![g] =
                 [u \in Units |-> next(u)]]
           /\ pc' = [pc EXCEPT ![g] = [u \in Units |-> AtFencedLoop(kernel, u, next(u))]]
    /\ barriersPassed' = [barriersPassed EXCEPT ![g] = [u \in Units |-> @[u] + 1]]
    /\ epochReads' = [epochReads EXCEPT ![g] = {}]
    /\ epochWrites' = [epochWrites EXCEPT ![g] = {}]
    /\ UNCHANGED <<kernel, launch, localSlice, results, resultWriters, inputReads,
                   pending, history, roundsRun, probe>>

(* lines 30-35, 70-75 *)
CombineFenced(g, u) ==
    /\ pc[g][u] = "combine"
    /\ LET a == activeThreadCount[g][u]
           active == {i \in Lanes(u) : FencedGuard(g, i, a)}
       IN  /\ localSlice' = [localSlice EXCEPT ![g] = Combined(@, active, a)]
           /\ epochReads' = [epochReads EXCEPT ![g] = @ \cup CombineReads(active, a)]
           /\ epochWrites' = [epochWrites EXCEPT ![g] = @ \cup {<<i, i>> : i \in active}]
    /\ pc' = [pc EXCEPT ![g][u] = "barrier"]
    /\ roundsRun' = [roundsRun EXCEPT ![g][u] = @ + 1]
    /\ UNCHANGED <<kernel, launch, results, activeThreadCount,
                   resultWriters, inputReads, pending, history, barriersPassed, probe>>

(* lines 43-46, 101-104 *)
CombineVolatile(g, u) ==
    /\ pc[g][u] = "volatile"
    /\ LET a == activeThreadCount[g][u]
           active == {i \in Lanes(u) : VolatileGuard(g, i, a)}
       IN  /\ localSlice' = [localSlice EXCEPT ![g] = Combined(@, active, a)]
           /\ epochReads' = [epochReads EXCEPT ![g] = @ \cup CombineReads(active, a)]
           /\ epochWrites' = [epochWrites EXCEPT ![g] = @ \cup {<<i, i>> : i \in active}]
           /\ activeThreadCount' = [activeThreadCount EXCEPT ![g][u] = Halve(a)]
           /\ pc' = [pc EXCEPT ![g][u] = AtVolatileLoop(Halve(a))]
    /\ roundsRun' = [roundsRun EXCEPT ![g][u] = @ + 1]
    /\ UNCHANGED <<kernel, launch, results, resultWriters, inputReads,
                   pending, history, barriersPassed, probe>>

(* lines 49, 80, 107 *)
WriteResult(g, u) ==
    /\ pc[g][u] = "write"
    /\ LET storing == {i \in Lanes(u) : StoresResult(kernel, i)}
       IN  IF storing = {}
           THEN UNCHANGED <<results, resultWriters, epochReads>>
           ELSE /\ results' = [results EXCEPT ![GroupId(g)] = ReadLocal(localSlice[g], 0)]
                /\ resultWriters' = [resultWriters EXCEPT ![GroupId(g)] =
                                        @ \cup {<<g, i>> : i \in storing}]
                /\ epochReads' = [epochReads EXCEPT ![g] =
                                     @ \cup {<<i, 0, "result">> : i \in storing}]
    /\ pc' = [pc EXCEPT ![g][u] = "done"]
    /\ UNCHANGED <<kernel, launch, localSlice, activeThreadCount,
                   inputReads, pending, history, epochWrites, progress, probe>>

Next ==
    \/ \E g \in Groups, u \in Units : LoadInput(g, u)
    \/ \E g \in Groups : BarrierRelease(g)
    \/ \E g \in Groups, u \in Units : CombineFenced(g, u)
    \/ \E g \in Groups, u \in Units : CombineVolatile(g, u)
    \/ \E g \in Groups, u \in Units : WriteResult(g, u)

Spec == Init /\ [][Next]_vars

----------------------------------------------------------------------------
(* The host dispatching several kernels, one after the other, on the same
   input with the same launch configuration. *)

Completed == \A g \in Groups, u \in Units : pc[g][u] = "done"

DispatchSequences ==
    {<<"reduceBarrier", "reduceSimd", "reduceHybrid">>, <<"reduceSimd", "reduceSimd">>}

InitRepeat ==
    /\ InitLaunch
    /\ NumUnits * numGroups <= MaxRepeatUnits
    /\ \E seq \in DispatchSequences : kernel = Head(seq) /\ pending = Tail(seq)

Redispatch ==
    /\ Completed
    /\ pending # <<>>
    /\ history' = Append(history, [kernel |-> kernel, results |-> results])
    /\ kernel' = Head(pending)
    /\ pending' = Tail(pending)
    /\ localSlice' = [g \in Groups |-> [j \in LocalIds |-> Indeterminate]]
    /\ results' = [g \in Groups |-> Indeterminate]
    /\ pc' = [g \in Groups |-> [u \in Units |-> "load"]]
    /\ activeThreadCount' = [g \in Groups |-> [u \in Units |-> 0]]
    /\ resultWriters' = [g \in Groups |-> {}]
    /\ inputReads' = {}
    /\ epochReads' = [g \in Groups |-> {}]
    /\ epochWrites' = [g \in Groups |-> {}]
    /\ barriersPassed' = [g \in Groups |-> [u \in Units |-> 0]]
    /\ roundsRun' = [g \in Groups |-> [u \in Units |-> 0]]
    /\ UNCHANGED <<launch, probe>>

NextRepeat == Next \/ Redispatch

SpecRepeat == InitRepeat /\ [][NextRepeat]_vars

----------------------------------------------------------------------------
(* One dispatch whose steps are not postponed forever: a device runs every
   work-group it has started, and a barrier that all work-items of a group
   have reached releases them. *)

InitFair == Init /\ NumUnits * numGroups <= MaxFairUnits

SpecFair == InitFair /\ [][Next]_vars /\ WF_vars(Next)

----------------------------------------------------------------------------
(* The host reducing an input to one value: it dispatches a pass with
   ceil(n / groupSize) groups over the n values the previous pass left in
   results, until one value remains. *)

GroupsFor(n) == (n + groupSize - 1) \div groupSize

InitPasses ==
    /\ kernel \in Kernels
    /\ groupSize \in {n \in 2 .. MaxGroupSize : IsPow2(n)}
    /\ simdWidth \in {Pow2(k) : k \in 0 .. MaxSimdLog}
    /\ kernel = "reduceSimd" => groupSize <= simdWidth
    /\ inputLength \in 1 .. MaxPassLen
    /\ numGroups = GroupsFor(inputLength)
    /\ NumUnits * numGroups <= MaxUnits
    /\ input \in InputVectors(inputLength)
    /\ StartState
    /\ history = <<>>
    /\ pending = <<>>
    /\ widthOut = [k \in 0 .. 1 |-> 0]
    /\ widthWriters = {}

NextPass ==
    /\ Completed
    /\ numGroups > 1
    /\ history' = Append(history, [kernel |-> kernel, results |-> results, input |-> input])
    /\ inputLength' = numGroups
    /\ input' = [k \in 0 .. numGroups - 1 |-> results[k].v]
    /\ numGroups' = GroupsFor(numGroups)
    /\ LET groups == 0 .. GroupsFor(numGroups) - 1
       IN  /\ localSlice' = [g \in groups |-> [j \in LocalIds |-> Indeterminate]]
           /\ results' = [g \in groups |-> Indeterminate]
           /\ pc' = [g \in groups |-> [u \in Units |-> "load"]]
           /\ activeThreadCount' = [g \in groups |-> [u \in Units |-> 0]]
           /\ resultWriters' = [g \in groups |-> {}]
           /\ epochReads' = [g \in groups |-> {}]
           /\ epochWrites' = [g \in groups |-> {}]
           /\ barriersPassed' = [g \in groups |-> [u \in Units |-> 0]]
           /\ roundsRun' = [g \in groups |-> [u \in Units |-> 0]]
    /\ inputReads' = {}
    /\ UNCHANGED <<kernel, groupSize, simdWidth, pending, probe>>

NextPasses == Next \/ NextPass

SpecPasses == InitPasses /\ [][NextPasses]_vars /\ WF_vars(NextPasses)

----------------------------------------------------------------------------
(* getSimdWidth, line 113-115: the capability probe.  Its output buffer is
   modelled with two slots, both 0 before the dispatch. *)

ProbeStoresAll(i) == TRUE

ProbeStores(i) == i = 0

ProbeSlot == 0

InitProbe ==
    /\ kernel = "getSimdWidth"
    /\ groupSize \in 1 .. MaxGroupSize
    /\ numGroups \in 1 .. MaxGroups
    /\ simdWidth \in {Pow2(k) : k \in 0 .. MaxSimdLog}
    /\ NumUnits * numGroups <= MaxUnits
    /\ inputLength = 0
    /\ input = << >>
    /\ localSlice = [g \in Groups |-> [j \in LocalIds |-> Indeterminate]]
    /\ results = [g \in Groups |-> Indeterminate]
    /\ pc = [g \in Groups |-> [u \in Units |-> "probe"]]
    /\ activeThreadCount = [g \in Groups |-> [u \in Units |-> 0]]
    /\ resultWriters = [g \in Groups |-> {}]
    /\ inputReads = {}
    /\ epochReads = [g \in Groups |-> {}]
    /\ epochWrites = [g \in Groups |-> {}]
    /\ barriersPassed = [g \in Groups |-> [u \in Units |-> 0]]
    /\ roundsRun = [g \in Groups |-> [u \in Units |-> 0]]
    /\ history = <<>>
    /\ pending = <<>>
    /\ widthOut = [k \in 0 .. 1 |-> 0]
    /\ widthWriters = {}

(* line 114 *)
ProbeWrite(g, u) ==
    /\ pc[g][u] = "probe"
    /\ LET storing == {i \in Lanes(u) : ProbeStores(i)}
       IN  /\ widthOut' = IF storing = {}
                          THEN widthOut
                          ELSE [widthOut EXCEPT ![ProbeSlot] = simdWidth]
           /\ widthWriters' = widthWriters \cup {<<g, i, ProbeSlot>> : i \in storing}
    /\ pc' = [pc EXCEPT ![g][u] = "done"]
    /\ UNCHANGED <<kernel, launch, localSlice, results, activeThreadCount,
                   resultWriters, inputReads, pending, history, accesses, progress>>

NextProbe == \E g \in Groups, u \in Units : ProbeWrite(g, u)

SpecProbe == InitProbe /\ [][NextProbe]_vars

----------------------------------------------------------------------------
(* What the claims speak of *)

RECURSIVE SumOver(_, _)
SumOver(f, S) ==
    IF S = {} THEN 0
    ELSE LET k == CHOOSE x \in S : TRUE IN f[k] + SumOver(f, S \ {k})

RECURSIVE Leaves(_)
Leaves(e) ==
    IF Len(e) = 2 THEN Leaves(e[1]) \cup Leaves(e[2])
    ELSE IF Len(e) = 1 THEN {e[1]}
    ELSE {}

(* the in-range global indices of group g *)
GroupRange(g) == {k \in 0 .. inputLength - 1 : k \div groupSize = g}

GroupSum(g) == SumOver(input, GroupRange(g))

HasInput(g) == GroupRange(g) # {}

Written(g) == resultWriters[g] # {}

GroupDone(g) == \A u \in Units : pc[g][u] = "done"

ValidLaunch ==
    /\ inputLength >= 1
    /\ numGroups = (inputLength + groupSize - 1) \div groupSize

Ramp == [k \in 0 .. inputLength - 1 |-> k + 1]

(* C1: reduceBarrier, launched with a power-of-two group size G on an input of
   N >= 1 elements with ceil(N/G) groups, writes to results[g] the sum of
   input[g*G .. min((g+1)*G, N)-1], whatever the interleaving of the units
   between barriers; once all groups are done the output slots add up to the
   sum of the input. *)
C1_BarrierSum ==
    (kernel = "reduceBarrier" /\ IsPow2(groupSize) /\ ValidLaunch) =>
        /\ \A g \in Groups :
              Written(g) => IsDef(results[g]) /\ results[g].v = GroupSum(g)
        /\ Completed =>
              SumOver([g \in Groups |-> results[g].v], Groups)
                  = SumOver(input, 0 .. inputLength - 1)

C1_Witness ==
    /\ kernel = "reduceBarrier" /\ groupSize = 4 /\ simdWidth = 1
    /\ inputLength = 4 /\ numGroups = 1 /\ input = Ramp
    /\ Completed
    /\ results[0].v = 10

(* the local indices whose element the halving folds into slot 0 of a full
   group of n work-items *)
RECURSIVE Cover(_)
Cover(n) ==
    IF n <= 1 THEN {0}
    ELSE LET a == n \div 2 IN Cover(a) \cup {j + a : j \in Cover(a)}

CoveredRange(g) == {k \in GroupRange(g) : (k - g * groupSize) \in Cover(groupSize)}

(* C2 as claimed: reduceBarrier writes to results[g] the sum of all in-range
   elements of group g for every group size G >= 1, a power of two or not. *)
C2_AnyGroupSize ==
    kernel = "reduceBarrier" =>
        \A g \in Groups :
            (HasInput(g) /\ Written(g)) =>
                IsDef(results[g]) /\ results[g].v = GroupSum(g)

(* C2 amended: reduceBarrier writes to results[g] the sum of the in-range
   elements of group g at the local indices the halving reaches (Cover); these
   are all local indices exactly when G is a power of two, and otherwise never
   include local index G-1. *)
C2_CoveredSum ==
    kernel = "reduceBarrier" =>
        /\ \A g \in Groups :
              (HasInput(g) /\ Written(g)) =>
                  /\ IsDef(results[g])
                  /\ Leaves(results[g].e) = CoveredRange(g)
                  /\ results[g].v = SumOver(input, CoveredRange(g))
        /\ IsPow2(groupSize) <=> Cover(groupSize) = LocalIds
        /\ ~IsPow2(groupSize) => (groupSize - 1) \notin Cover(groupSize)

C2_Witness ==
    /\ kernel = "reduceBarrier" /\ groupSize = 6 /\ inputLength = 6
    /\ numGroups = 1 /\ input = Ramp
    /\ Completed
    /\ results[0].v = 1 + 4 + 2 + 5

(* C3: reduceHybrid, with a power-of-two group size G and lockstep width W
   (G < W, G = W, G = 2W, G > 2W), writes to results[g] the sum of the in-range
   elements of group g, whatever the interleaving of the lockstep units. *)
C3_HybridSum ==
    (kernel = "reduceHybrid" /\ IsPow2(groupSize) /\ IsPow2(simdWidth)) =>
        \A g \in Groups :
            (HasInput(g) /\ Written(g)) =>
                /\ IsDef(results[g]) /\ results[g].v = GroupSum(g)
                /\ resultWriters[g] = {<<g, 0>>}

C3_Witness ==
    /\ kernel = "reduceHybrid" /\ groupSize = 4 /\ simdWidth = 1
    /\ inputLength = 4 /\ numGroups = 1 /\ input = Ramp
    /\ Completed
    /\ results[0].v = 10

(* C4: reduceSimd, with a power-of-two group size G <= lockstep width, leaves
   in scratch slot 0 after the last round, and writes to results[g], the sum
   of the in-range elements of group g. *)
C4_SimdSum ==
    (kernel = "reduceSimd" /\ IsPow2(groupSize) /\ groupSize <= simdWidth) =>
        \A g \in Groups :
            HasInput(g) =>
                /\ pc[g][0] \in {"write", "done"} =>
                      IsDef(localSlice[g][0]) /\ localSlice[g][0].v = GroupSum(g)
                /\ Written(g) => results[g] = localSlice[g][0]

(* both groups done, and in group 0 lanes 2 and 3 have combined with slots
   beyond the scratch buffer *)
C4_Witness ==
    /\ kernel = "reduceSimd" /\ groupSize = 4 /\ simdWidth = 4
    /\ inputLength = 6 /\ numGroups = 2 /\ input = Ramp
    /\ Completed
    /\ ~IsDef(localSlice[0][2]) /\ ~IsDef(localSlice[0][3])
    /\ results[0].v = 10 /\ results[1].v = 11

PreconditionsMet ==
    /\ IsPow2(groupSize)
    /\ kernel = "reduceSimd" => groupSize <= simdWidth

(* C5: in each kernel under its preconditions, when inputLength is not a
   multiple of the group size, slot 0 of the last group never holds anything
   but a sum of elements of input[g*G .. N-1], and the output of the last group
   is the sum of exactly these. *)
C5_Boundary ==
    (PreconditionsMet /\ inputLength % groupSize # 0) =>
        \A g \in Groups :
            (HasInput(g) /\ (g + 1) * groupSize > inputLength) =>
                /\ pc[g][0] # "load" =>
                      /\ IsDef(localSlice[g][0])
                      /\ Leaves(localSlice[g][0].e) \subseteq g * groupSize .. inputLength - 1
                /\ Written(g) =>
                      /\ results[g].v = SumOver(input, g * groupSize .. inputLength - 1)
                      /\ Leaves(results[g].e) = g * groupSize .. inputLength - 1

C5_Witness ==
    /\ kernel = "reduceSimd" /\ groupSize = 4 /\ simdWidth = 4
    /\ inputLength = 3 /\ numGroups = 1 /\ input = Ramp
    /\ Completed
    /\ results[0].v = 6

LockstepGroup == IsPow2(groupSize) /\ groupSize <= simdWidth

(* C6: for the same input, inputLength and power-of-two group size
   G <= lockstep width, reduceBarrier, reduceSimd and reduceHybrid write the
   same value, built by the same tree of additions, to every results[g]. *)
C6_VariantEquivalence ==
    LockstepGroup =>
        \A g \in Groups :
            HasInput(g) =>
                \A r \in 1 .. Len(history) :
                    /\ IsDef(history[r].results[g])
                    /\ \A q \in 1 .. Len(history) :
                          history[q].results[g] = history[r].results[g]
                    /\ Written(g) => results[g] = history[r].results[g]

C6_Witness ==
    /\ Len(history) = 2 /\ Completed
    /\ history[1].kernel = "reduceBarrier" /\ history[2].kernel = "reduceSimd"
    /\ kernel = "reduceHybrid"
    /\ groupSize = 4 /\ simdWidth = 4 /\ numGroups = 2 /\ inputLength = 6
    /\ results[0].e = << << <<0>>, <<2>> >>, << <<1>>, <<3>> >> >>
    /\ results[1].e = << <<4>>, <<5>> >>
    /\ history[1].results = results /\ history[2].results = results

(* C7: two dispatches of reduceSimd on the same launch (power-of-two group
   size) end with different values in some results[g], or with a value that
   is not the sum of the group's input, only when the group size exceeds the
   lockstep width; the witness is such a pair of dispatches. *)
C7_RaceOnlyWhenMisused ==
    \A r \in 1 .. Len(history) :
        (history[r].kernel = "reduceSimd" /\ kernel = "reduceSimd"
            /\ IsPow2(groupSize) /\ Completed) =>
            \A g \in Groups :
                (HasInput(g)
                    /\ \/ results[g] # history[r].results[g]
                       \/ ~IsDef(results[g])
                       \/ results[g].v # GroupSum(g)) =>
                    groupSize > simdWidth

C7_Witness ==
    /\ Len(history) = 1 /\ history[1].kernel = "reduceSimd"
    /\ kernel = "reduceSimd" /\ Completed
    /\ IsPow2(groupSize) /\ groupSize > simdWidth /\ ValidLaunch
    /\ \E g \in Groups :
          /\ IsDef(results[g]) /\ IsDef(history[1].results[g])
          /\ history[1].results[g].v = GroupSum(g)
          /\ results[g].v # GroupSum(g)

(* C8: in every kernel the work-items of group g store to results only at
   index g, a results slot changes only by the store of a unit of its own
   group and holds only elements of that group's input slice, and input is
   never written. *)
C8_OutputFrame ==
    /\ [](\A h \in Groups :
             /\ \A w \in resultWriters[h] : w[1] = h
             /\ IsDef(results[h]) =>
                   /\ Written(h)
                   /\ Leaves(results[h].e) \subseteq GroupRange(h))
    /\ [][/\ input' = input
          /\ \A h \in Groups :
                results'[h] # results[h] =>
                    \E u \in Units : pc[h][u] = "write" /\ pc'[h][u] = "done"]_vars

C8_Witness ==
    /\ numGroups = 2 /\ groupSize = 2 /\ inputLength = 4 /\ Completed
    /\ kernel = "reduceBarrier"
    /\ resultWriters[0] = {<<0, 0>>} /\ resultWriters[1] = {<<1, 0>>}
    /\ Leaves(results[0].e) = {0, 1} /\ Leaves(results[1].e) = {2, 3}

(* C9 as claimed: in each of the three kernels only the work-item with local
   index 0 stores to results. *)
C9_SingleWriter ==
    \A h \in Groups : \A w \in resultWriters[h] : w[2] = 0

(* C9 amended: in reduceBarrier and reduceHybrid only the work-item with local
   index 0 stores to results, once; in reduceSimd the store is not gated and
   every work-item of the group stores scratch slot 0 to results[g]. *)
C9_WritersPerKernel ==
    \A h \in Groups :
        /\ kernel # "reduceSimd" =>
              /\ resultWriters[h] \subseteq {<<h, 0>>}
              /\ GroupDone(h) => resultWriters[h] = {<<h, 0>>}
        /\ kernel = "reduceSimd" =>
              /\ resultWriters[h] =
                    {<<h, i>> : i \in UNION {Lanes(u) : u \in {x \in Units : pc[h][x] = "done"}}}
              /\ (LockstepGroup /\ HasInput(h) /\ Written(h)) =>
                    results[h] = localSlice[h][0]

C9_Witness ==
    /\ kernel = "reduceSimd" /\ groupSize = 4 /\ simdWidth = 4 /\ Completed
    /\ resultWriters[0] = {<<0, 0>>, <<0, 1>>, <<0, 2>>, <<0, 3>>}

(* C10: in all three kernels the load step of a work-item with global index
   >= inputLength neither reads input nor changes its scratch slot, and the
   load step of a work-item with global index < inputLength stores
   input[globalIndex] in the scratch slot of its local index. *)
C10_GuardedLoad ==
    /\ [](inputReads \subseteq 0 .. inputLength - 1)
    /\ [][\A g \in Groups, u \in Units :
             (pc[g][u] = "load" /\ pc'[g][u] # "load") =>
                 /\ \A i \in Lanes(u) :
                       IF GlobalIndex(g, i) < inputLength
                       THEN /\ localSlice'[g][i] =
                                  Leaf(GlobalIndex(g, i), input[GlobalIndex(g, i)])
                            /\ GlobalIndex(g, i) \in inputReads'
                       ELSE /\ localSlice'[g][i] = localSlice[g][i]
                            /\ GlobalIndex(g, i) \notin inputReads'
                 /\ \A j \in LocalIds \ Lanes(u) : localSlice'[g][j] = localSlice[g][j]]_vars

(* a group whose last two work-items lie beyond inputLength has loaded *)
C10_Witness ==
    /\ kernel = "reduceSimd" /\ groupSize = 4 /\ simdWidth = 4 /\ inputLength = 2
    /\ numGroups = 1 /\ input = Ramp
    /\ pc[0][0] # "load"
    /\ inputReads = {0, 1}
    /\ ~IsDef(localSlice[0][2]) /\ ~IsDef(localSlice[0][3])

OriginalInput == IF history = <<>> THEN input ELSE history[1].input

OneValueLeft == Completed /\ numGroups = 1

(* C11: with a power-of-two group size G >= 2, dispatching passes with
   ceil(n/G) groups over the previous pass's output makes the length strictly
   smaller with every pass, reaches a single value, and that value is the sum
   of the original input. *)
C11_MultiPass ==
    /\ [](OneValueLeft =>
             /\ IsDef(results[0])
             /\ results[0].v = SumOver(OriginalInput, DOMAIN OriginalInput))
    /\ [][inputLength' # inputLength =>
             /\ inputLength' = (inputLength + groupSize - 1) \div groupSize
             /\ 1 <= inputLength' /\ inputLength' < inputLength]_vars
    /\ <>OneValueLeft

(* input 1..8 with groups of 2: 4, 2 and 1 groups, the third pass leaves 36 *)
C11_Witness ==
    /\ Len(history) = 2 /\ OneValueLeft
    /\ groupSize = 2 /\ inputLength = 2
    /\ history[1].input = [k \in 0 .. 7 |-> k + 1]
    /\ history[2].input = [k \in 0 .. 3 |-> 4 * k + 3]
    /\ results[0].v = 36

ProbeDone(g) == \A u \in Units : pc[g][u] = "done"

(* C12: in getSimdWidth the work-item with local index 0 of each group
   stores the lockstep width in slot 0 of the output; no other work-item
   stores anything, no other slot changes, and each group makes exactly one
   store (none before its first lockstep unit has run). *)
C12_ProbeFrame ==
    /\ widthWriters \subseteq {<<g, 0, 0>> : g \in Groups}
    /\ widthOut[1] = 0
    /\ widthOut[0] = IF widthWriters = {} THEN 0 ELSE simdWidth
    /\ \A g \in Groups :
          /\ <<g, 0, 0>> \in widthWriters <=> pc[g][0] = "done"
          /\ ProbeDone(g) => Cardinality({w \in widthWriters : w[1] = g}) = 1

(* two groups of two work-items, each work-item a lockstep unit of its own *)
C12_Witness ==
    /\ kernel = "getSimdWidth"
    /\ groupSize = 2 /\ numGroups = 2 /\ simdWidth = 1
    /\ \A g \in Groups : ProbeDone(g)
    /\ widthOut[0] = 1
    /\ widthWriters = {<<0, 0, 0>>, <<1, 0, 0>>}

FirstPhase == {"load", "barrier0", "combine", "barrier"}

SecondPhase == {"volatile", "write", "done"}

InSecondPhase(g) == \E u \in Units : pc[g][u] \in SecondPhase

(* the rounds a unit has run without a barrier after them *)
UnfencedRounds(g, u) == roundsRun[g][u] - (barriersPassed[g][u] - 1)

(* C13: in reduceHybrid a round is run with a barrier after it exactly
   while activeThreadCount > W; the unfenced rounds start with
   activeThreadCount <= W (= W when G >= 2W is a power of two); once the
   group is past the last barrier the units of local indices >= W have
   returned and made no access to localSlice after it; and no unit is in, or
   before, a barrier once a unit of its group is in the unfenced part. *)
C13_PhaseOrder ==
    kernel = "reduceHybrid" =>
        \A g \in Groups :
            /\ \A u \in Units :
                  LET a == activeThreadCount[g][u]
                  IN  /\ pc[g][u] = "combine" =>
                            a > simdWidth /\ roundsRun[g][u] = barriersPassed[g][u] - 1
                      /\ pc[g][u] = "barrier" =>
                            a > simdWidth /\ roundsRun[g][u] = barriersPassed[g][u]
                      /\ pc[g][u] = "volatile" =>
                            /\ 0 < a /\ a * Pow2(UnfencedRounds(g, u)) <= simdWidth
                            /\ UnfencedRounds(g, u) = 0 /\ IsPow2(groupSize)
                                  /\ groupSize >= 2 * simdWidth => a = simdWidth
            /\ InSecondPhase(g) =>
                  /\ \A u \in Units : pc[g][u] \in SecondPhase
                  /\ \A u \in Units : (\A i \in Lanes(u) : i >= simdWidth) => pc[g][u] = "done"
                  /\ \A r \in epochReads[g] : r[1] < simdWidth
                  /\ \A w \in epochWrites[g] : w[1] < simdWidth

(* G = 4, W = 1: one round with a barrier (a = 2), then unit 0 alone at the
   unfenced round with a = 1 *)
C13_Witness ==
    /\ kernel = "reduceHybrid" /\ groupSize = 4 /\ simdWidth = 1 /\ inputLength = 4
    /\ pc[0] = [u \in Units |-> IF u = 0 THEN "volatile" ELSE "done"]
    /\ activeThreadCount[0][0] = 1
    /\ barriersPassed[0][0] = 2 /\ roundsRun[0][0] = 1

RECURSIVE Log2Floor(_)
Log2Floor(n) == IF n <= 1 THEN 0 ELSE 1 + Log2Floor(n \div 2)

(* the rounds that have a barrier after them, counted from activeThreadCount = a *)
RECURSIVE FencedRoundsFrom(_)
FencedRoundsFrom(a) ==
    IF a > (IF kernel = "reduceHybrid" THEN simdWidth ELSE 0)
    THEN 1 + FencedRoundsFrom(a \div 2)
    ELSE 0

(* C14: in reduceBarrier and reduceHybrid all units of a group have passed
   the same number of barriers, 1 + the number of fenced rounds once they are
   past the last one, whatever inputLength is; no unit has returned while
   another of its group is still at or before a barrier; a dispatch that is
   not complete can always take a step; no unit of any kernel runs more than
   floor(log2(G)) rounds; and every dispatch completes. *)
C14_BarriersAndTermination ==
    /\ [](/\ Completed \/ ENABLED Next
          /\ \A g \in Groups, u \in Units : roundsRun[g][u] <= Log2Floor(groupSize)
          /\ kernel \in {"reduceBarrier", "reduceHybrid"} =>
                \A g \in Groups, u \in Units :
                    /\ \A v \in Units : barriersPassed[g][v] = barriersPassed[g][u]
                    /\ pc[g][u] \in {"volatile", "write", "done"} =>
                          /\ barriersPassed[g][u] = 1 + FencedRoundsFrom(groupSize \div 2)
                          /\ \A v \in Units : pc[g][v] \in {"volatile", "write", "done"})
    /\ <>[]Completed

(* reduceHybrid, G = 6, W = 2, N = 2: three units, most of them beyond the
   input, have all passed the two barriers and returned *)
C14_Witness ==
    /\ kernel = "reduceHybrid" /\ groupSize = 6 /\ simdWidth = 2 /\ inputLength = 2
    /\ Completed
    /\ \A u \in Units : barriersPassed[0][u] = 2
    /\ roundsRun[0] = [u \in Units |-> IF u = 0 THEN 2 ELSE 1]

(* the slices a group holds at its barriers when all its work-items run as
   one lockstep unit: after the load, and after k rounds *)
LoadedSlice(g) ==
    [j \in LocalIds |->
        IF LoadGuard(g, j) THEN ReadInput(GlobalIndex(g, j)) ELSE Indeterminate]

RECURSIVE CountAtRound(_)
CountAtRound(k) == IF k <= 1 THEN InitialCount ELSE Halve(CountAtRound(k - 1))

RECURSIVE SliceAfter(_, _)
SliceAfter(g, k) ==
    IF k = 0 THEN LoadedSlice(g)
    ELSE Combined(SliceAfter(g, k - 1),
                  {i \in LocalIds : FencedGuard(g, i, CountAtRound(k))},
                  CountAtRound(k))

Fenced(g) ==
    \/ kernel = "reduceBarrier"
    \/ kernel = "reduceHybrid" /\ ~InSecondPhase(g)

AtBarrier(g) == \A u \in Units : pc[g][u] \in {"barrier0", "barrier"}

(* C15: in reduceBarrier and in the fenced part of reduceHybrid, between two
   barriers no slot of localSlice written by one work-item is read or written
   by another; in a round with activeThreadCount = a the writes are to slots
   [0, a) by their owners and the reads of other work-items' slots are of
   slots [a, 2a); and whatever the order of the units, the slice a group holds
   when all have reached a barrier is the one a single lockstep unit
   computes. *)
C15_FencedRaceFree ==
    \A g \in Groups :
        Fenced(g) =>
            /\ \A w \in epochWrites[g] :
                  /\ w[1] = w[2]
                  /\ \A r \in epochReads[g] : r[2] = w[2] => r[1] = w[1]
            /\ \A u \in Units :
                  pc[g][u] \in {"combine", "barrier"} =>
                      LET a == activeThreadCount[g][u]
                      IN  /\ \A w \in epochWrites[g] : w[2] < a
                          /\ \A r \in epochReads[g] :
                                IF r[3] = "source"
                                THEN a <= r[2] /\ r[2] < 2 * a
                                ELSE r[2] = r[1]
            /\ AtBarrier(g) => localSlice[g] = SliceAfter(g, roundsRun[g][0])

(* reduceBarrier, G = 4, N = 4, four units: all have run the round a = 2 in
   some order and wait at its barrier *)
C15_Witness ==
    /\ kernel = "reduceBarrier" /\ groupSize = 4 /\ simdWidth = 1 /\ inputLength = 4
    /\ \A u \in Units : pc[0][u] = "barrier" /\ activeThreadCount[0][u] = 2
    /\ epochWrites[0] = {<<0, 0>>, <<1, 1>>}
    /\ {r \in epochReads[0] : r[3] = "source"} = {<<0, 2, "source">>, <<1, 3, "source">>}
    /\ localSlice[0][0].v = 4 /\ localSlice[0][1].v = 6

UnitOf(i) == i \div simdWidth

SourceReads(g) == {r \in epochReads[g] : r[3] = "source"}

(* C16 as claimed: with localSlice of groupSize slots, every slot a work-item
   reads as the source of a += has an index < groupSize and was written by the
   load from an in-range element of the group's input, in each kernel under
   its preconditions, in launches of one and of several groups. *)
C16_ValidSources ==
    (PreconditionsMet /\ ValidLaunch) =>
        \A g \in Groups :
            \A r \in SourceReads(g) :
                /\ r[2] < groupSize
                /\ LoadGuard(g, r[2])
                /\ pc[g][UnitOf(r[2])] # "load"

(* C17: in reduceHybrid every write to localSlice after the last barrier is
   by a work-item with local index < W to its own slot; a slot with index
   >= W that is read after that barrier is not written after it; and a slot
   written after it is accessed by no work-item of another lockstep unit. *)
C17_UnfencedConfined ==
    kernel = "reduceHybrid" =>
        \A g \in Groups :
            InSecondPhase(g) =>
                /\ \A w \in epochWrites[g] : w[1] < simdWidth /\ w[2] = w[1]
                /\ \A r \in epochReads[g] :
                      /\ r[2] >= simdWidth => \A w \in epochWrites[g] : w[2] # r[2]
                      /\ \A w \in epochWrites[g] :
                            w[2] = r[2] => UnitOf(w[1]) = UnitOf(r[1])

(* G = 4, W = 2, N = 4: after the barrier unit 0 has run the round a = 2,
   reading slots 2 and 3 that unit 1 loaded before it *)
C17_Witness ==
    /\ kernel = "reduceHybrid" /\ groupSize = 4 /\ simdWidth = 2 /\ inputLength = 4
    /\ pc[0][0] = "volatile" /\ pc[0][1] = "done"
    /\ activeThreadCount[0][0] = 1
    /\ epochWrites[0] = {<<0, 0>>, <<1, 1>>}
    /\ SourceReads(0) = {<<0, 2, "source">>, <<1, 3, "source">>}
    /\ localSlice[0][0].v = 4

Loaded(g, u) == pc[g][u] # "load"

(* C18 as claimed: the load of reduceSimd has no bounds check, so once a unit
   has loaded, every one of its work-items, those with global index
   >= inputLength too, has read input[globalIndex] and stored it in its
   slot. *)
C18_UnguardedSimdLoad ==
    kernel = "reduceSimd" =>
        \A g \in Groups, u \in Units :
            Loaded(g, u) =>
                \A i \in Lanes(u) :
                    GlobalIndex(g, i) \in inputReads /\ <<i, i>> \in epochWrites[g]

(* C18, amended: the load of reduceSimd is guarded by globalIndex <
   inputLength as in the other two kernels: once a unit has loaded, its
   work-items with global index < inputLength have read input[globalIndex]
   and written their slot, the others have read nothing, and their slot is
   never written; input is never read at an index >= inputLength. *)
C18_SimdLoadGuarded ==
    kernel = "reduceSimd" =>
        /\ inputReads \subseteq 0 .. inputLength - 1
        /\ \A g \in Groups, u \in Units :
              Loaded(g, u) =>
                  \A i \in Lanes(u) :
                      IF GlobalIndex(g, i) < inputLength
                      THEN GlobalIndex(g, i) \in inputReads /\ <<i, i>> \in epochWrites[g]
                      ELSE /\ GlobalIndex(g, i) \notin inputReads
                           /\ <<i, i>> \notin epochWrites[g]
                           /\ ~IsDef(localSlice[g][i])

(* two groups of two over three elements: the last work-item of the second
   group is beyond the input and has loaded nothing *)
C18_Witness ==
    /\ kernel = "reduceSimd" /\ groupSize = 2 /\ simdWidth = 2 /\ inputLength = 3
    /\ numGroups = 2 /\ input = Ramp
    /\ Loaded(0, 0) /\ Loaded(1, 0)
    /\ inputReads = {0, 1, 2}
    /\ localSlice[1][0].v = 3 /\ ~IsDef(localSlice[1][1])
    /\ <<1, 1>> \notin epochWrites[1]

(* the in-range global indices of group g at local positions j, j + s, j + 2s, ... *)
Strided(g, j, s) ==
    {k \in GroupRange(g) : k - g * groupSize >= j /\ (k - g * groupSize - j) % s = 0}

HoldsStrideSum(g, j, s) ==
    /\ Leaves(localSlice[g][j].e) = Strided(g, j, s)
    /\ localSlice[g][j].v = SumOver(input, Strided(g, j, s))

(* C19: in each kernel under its preconditions, when a unit is about to run
   the round with activeThreadCount = a, every slot j < 2a with g*G + j <
   inputLength that the round has not yet combined holds the sum of the
   in-range elements of the group at positions j, j + 2a, j + 4a, ...: all
   such slots in the unfenced rounds, and in a fenced round the slots [a, 2a)
   and the slots of the units that have not run the round yet.  The slots the
   lanes >= a have written in the unfenced rounds are therefore none of
   these. *)
C19_RoundInvariant ==
    PreconditionsMet =>
        \A g \in Groups, u \in Units :
            LET a == activeThreadCount[g][u]
            IN  pc[g][u] \in {"combine", "volatile"} =>
                    \A j \in LocalIds :
                        (/\ j < 2 * a
                         /\ GlobalIndex(g, j) < inputLength
                         /\ j >= a \/ pc[g][UnitOf(j)] = pc[g][u]) =>
                            HoldsStrideSum(g, j, 2 * a)

(* reduceSimd, G = 4, N = 6, at the round a = 1 of group 0: slots 0 and 1
   hold input[0] + input[2] and input[1] + input[3], and slot 2, written by
   lane 2 in the round a = 2, no longer holds input[2] *)
C19_Witness ==
    /\ kernel = "reduceSimd" /\ groupSize = 4 /\ simdWidth = 4 /\ inputLength = 6
    /\ numGroups = 2 /\ input = Ramp
    /\ pc[0][0] = "volatile" /\ activeThreadCount[0][0] = 1
    /\ localSlice[0][0].v = 4 /\ localSlice[0][1].v = 6
    /\ ~IsDef(localSlice[0][2])

(* C20 as claimed: whenever results[g] has been written, slot 0 of group g was
   written by the load and the value stored is an initialised one, in every
   launch of a kernel under its preconditions: also when g * G >= inputLength
   (more groups than ceil(inputLength / G), or inputLength = 0). *)
C20_InitialisedOutput ==
    PreconditionsMet =>
        \A g \in Groups :
            Written(g) => LoadGuard(g, 0) /\ IsDef(results[g])

(* reduceBarrier over an empty input: the one group has stored its slot 0,
   which no work-item has written *)
C20_Witness ==
    /\ kernel = "reduceBarrier" /\ groupSize = 2 /\ simdWidth = 2 /\ inputLength = 0
    /\ numGroups = 1 /\ Completed
    /\ Written(0) /\ ~IsDef(results[0])
    /\ inputReads = {}

(* reduceSimd, two groups of two over three elements: work-item 1 of group 0
   has read slot 2 of the group's two slots as a source; local index 0 has
   since stored input[0] + input[1] *)
C16_Witness ==
    /\ kernel = "reduceSimd" /\ groupSize = 2 /\ simdWidth = 2 /\ inputLength = 3
    /\ numGroups = 2 /\ input = Ramp
    /\ <<1, 2, "source">> \in epochReads[0]
    /\ Written(0) /\ results[0].v = 3

====
